---- MODULE Spec2Model ----
(***************************************************************************)
(* Model of mutiny-core/src/networking/ws_socket.rs: the multiplexed       *)
(* websocket descriptor (MultiWsSocketDescriptor), its sub sockets         *)
(* (SubWsSocketDescriptor) and the frame dispatch (handle_incoming_msg).   *)
(*                                                                         *)
(* Tasks: one caller of the multiplexer's API (connect takes &mut self, so *)
(* API calls never overlap), one reader loop and one channel pump per      *)
(* connect, and the peer manager, which calls the synchronous sub socket   *)
(* operations at any time.  No holder of the socket_map mutex awaits while  *)
(* it holds it, so a critical section is one step; a task that has let go  *)
(* of the mutex and awaits it again can be suspended there.                *)
(***************************************************************************)
EXTENDS Integers, Sequences, FiniteSets, TLC

\* ws_socket.rs:19
PUBKEY_BYTES_LEN == 33

\* bound of the model: the number of external events (calls of the
\* multiplexer's API, frames and errors of the transports, calls of the peer
\* manager on a subsocket, the stop flag) of a run
MaxOps == 4

----------------------------------------------------------------------------
\* Byte vectors and messages

\* a 33 byte public key; keys differ in their last byte only
Key(b) == [i \in 1..PUBKEY_BYTES_LEN |-> IF i = PUBKEY_BYTES_LEN THEN b ELSE 2]

PeerA == Key(3)
PeerB == Key(4)
Peers == {PeerA, PeerB}
our_peer_pubkey == Key(9)

Payloads == {<<>>, <<7>>}

\* gloo_net Message::Bytes / Message::Text
Bytes(d) == [kind |-> "Bytes", data |-> d]
Text(t) == [kind |-> "Text", text |-> t]

\* serde_json::to_string of a MutinyProxyCommand: the JSON object
PingJson == [tag |-> "Ping"]
DisconnectJson(to, from) == [tag |-> "Disconnect", to |-> to, from |-> from]

\* a parser that takes a Ping for a Disconnect
ParseCommand_ping(t) ==
    IF t.tag = "Ping" /\ DOMAIN t = {"tag"}
    THEN [ok |-> TRUE, cmd |-> "Disconnect", from |-> PeerA]
    ELSE IF t.tag = "Disconnect" /\ DOMAIN t = {"tag", "to", "from"}
    THEN [ok |-> TRUE, cmd |-> "Disconnect", from |-> t.from]
    ELSE [ok |-> FALSE, cmd |-> "Err", from |-> <<>>]

\* a parser that takes the sender from the wrong field
ParseCommand_to(t) ==
    IF t.tag = "Ping" /\ DOMAIN t = {"tag"}
    THEN [ok |-> TRUE, cmd |-> "Ping", from |-> <<>>]
    ELSE IF t.tag = "Disconnect" /\ DOMAIN t = {"tag", "to", "from"}
    THEN [ok |-> TRUE, cmd |-> "Disconnect", from |-> t.to]
    ELSE [ok |-> FALSE, cmd |-> "Err", from |-> <<>>]

\* serde_json::from_str::<MutinyProxyCommand>: the command, or a parse error
ParseCommand(t) ==
    IF t.tag = "Ping" /\ DOMAIN t = {"tag"}
    THEN [ok |-> TRUE, cmd |-> "Ping", from |-> <<>>]
    ELSE IF t.tag = "Disconnect" /\ DOMAIN t = {"tag", "to", "from"}
    THEN [ok |-> TRUE, cmd |-> "Disconnect", from |-> t.from]
    ELSE [ok |-> FALSE, cmd |-> "Err", from |-> <<>>]

\* slice::split_at, which panics when n is past the end
split_at(msg, n) == <<SubSeq(msg, 1, n), SubSeq(msg, n + 1, Len(msg))>>
\* a split that fails at the end of the slice too
SplitPanics_at_end(msg, n) == n >= Len(msg)
SplitPanics(msg, n) == n > Len(msg)

\* a length check that is off by one
TooShort_off(msg) == Len(msg) < PUBKEY_BYTES_LEN - 1

\* line 340: the frame cannot hold a pubkey
TooShort(msg) == Len(msg) < PUBKEY_BYTES_LEN

\* a lookup by the whole frame, and a payload that keeps the pubkey
id_bytes_whole(msg) == msg
message_bytes_whole(msg) == msg

\* line 344: the pubkey the frame is from, and the rest of the frame
id_bytes(msg) == split_at(msg, PUBKEY_BYTES_LEN)[1]
message_bytes(msg) == split_at(msg, PUBKEY_BYTES_LEN)[2]

\* what a transport can deliver
ShortFrames == {Bytes(SubSeq(PeerA, 1, PUBKEY_BYTES_LEN - 1))}
PeerFrames == {Bytes(p \o d) : p \in Peers, d \in Payloads}
TextFrames ==
    {Text(DisconnectJson(our_peer_pubkey, p)) : p \in Peers}
    \cup {Text(PingJson), Text([tag |-> "Disconnect", to |-> our_peer_pubkey])}
Frames == ShortFrames \cup PeerFrames \cup TextFrames

NoMsg == [kind |-> "None"]
NoSock == -1

\* every external event builds at most one socket and starts at most one reader
SockIds == 0..(MaxOps - 1)
Loops == 1..MaxOps

----------------------------------------------------------------------------
\* HashMap operations on socket_map

Has(m, key) == key \in DOMAIN m
\* a lookup that takes an entry whatever the key
get_mut_any(m, key) == IF DOMAIN m = {} THEN {} ELSE {CHOOSE x \in DOMAIN m : TRUE}
\* HashMap::get_mut: the key of the entry found, if any
get_mut(m, key) == IF Has(m, key) THEN {key} ELSE {}
Insert(m, key, val) == [x \in DOMAIN m \cup {key} |-> IF x = key THEN val ELSE m[x]]
Remove(m, key) == [x \in DOMAIN m \ {key} |-> m[x]]
\* an unwinding that leaves the entry
Unwound_keep(m, msg) == m
\* line 420: the entry of the frame's pubkey is removed
Unwound(m, msg) == Remove(m, id_bytes(msg))
\* an entry that holds the sender of the first channel
Entry_shared(id) == [sub |-> id, sender |-> 0]
\* the value of an entry: the subsocket and the sender of the channel it reads
Entry(id) == [sub |-> id, sender |-> id]
EmptyMap == [x \in {} |-> Entry(NoSock)]

\* futures::lock::Mutex of socket_map: no guard is alive; a guard held by the
\* reader of transport k is k
Free == 0

----------------------------------------------------------------------------
VARIABLES
    ID_COUNTER,          \* static ID_COUNTER
    peer_pubkey_bytes,   \* SubWsSocketDescriptor.peer_pubkey_bytes, by id
    created,             \* the descriptors built so far, in the order of their creation
    sub_stop,            \* SubWsSocketDescriptor.stop, by id (shared by clones)
    read_channel,        \* contents of the channel into each sub socket
    socket_map,          \* SubSocketMap: pubkey -> (subsocket, sender)
    conn,                \* MultiWsSocketDescriptor.conn: 0 is None, t the t-th transport
    connected,           \* MultiWsSocketDescriptor.connected
    stop,                \* MultiWsSocketDescriptor.stop
    read_from_sub_socket,\* contents of the channel shared by the sub sockets
    sent,                \* messages handed to each transport's send
    reader,              \* the task of listen() reading transport k
    pump,                \* the task of listen() draining the shared channel into transport k
    caller,              \* the caller of connect / create_new_subsocket
    registered,          \* sockets the peer manager holds
    new_inbound,         \* new_inbound_connection calls, by socket id
    disconnected,        \* socket_disconnected calls, by socket id
    delivered,           \* payloads read() has returned, by socket id
    sent_data,           \* data send_data has put on the shared channel, by socket id
    delay,               \* the delay of reader k's turn of the loop has run out
    tcp_sent,            \* messages handed to the transport of each direct socket
    tcp_close,           \* each direct socket: none, open, closing (close spawned), closed
    lock,                \* who holds the guard of socket_map's mutex
    closed,              \* transport k's read() has yielded None: it has closed
    nops,                \* external events so far
    ev                   \* the step taken last

sockVars == <<ID_COUNTER, peer_pubkey_bytes, created, sub_stop, read_channel>>
multiVars == <<conn, connected, read_from_sub_socket, sent>>
taskVars == <<reader, pump, caller>>
pmVars == <<registered, new_inbound, disconnected, delivered, sent_data>>
tcpVars == <<tcp_sent, tcp_close>>
vars == <<sockVars, socket_map, multiVars, stop, taskVars, pmVars, delay, tcpVars, lock,
          closed, nops, ev>>

Event(op, k, msg, id) == [op |-> op, k |-> k, msg |-> msg, id |-> id]

ReaderIdle == [pc |-> "off", msg |-> NoMsg, sub |-> NoSock]
CallerIdle == [pc |-> "idle", peer |-> <<>>, sub |-> NoSock]

Init ==
    /\ ID_COUNTER = 0
    /\ peer_pubkey_bytes = [i \in SockIds |-> <<>>]
    /\ created = <<>>
    /\ sub_stop = [i \in SockIds |-> FALSE]
    /\ read_channel = [i \in SockIds |-> <<>>]
    /\ socket_map = EmptyMap
    /\ conn = 0
    /\ connected = FALSE
    /\ stop = FALSE
    /\ read_from_sub_socket = <<>>
    /\ sent = [k \in Loops |-> <<>>]
    /\ reader = [k \in Loops |-> ReaderIdle]
    /\ pump = [k \in Loops |-> "off"]
    /\ caller = CallerIdle
    /\ registered = [i \in SockIds |-> FALSE]
    /\ new_inbound = [i \in SockIds |-> 0]
    /\ disconnected = [i \in SockIds |-> 0]
    /\ delivered = [i \in SockIds |-> <<>>]
    /\ sent_data = [i \in SockIds |-> <<>>]
    /\ delay = [k \in Loops |-> FALSE]
    /\ tcp_sent = [i \in SockIds |-> <<>>]
    /\ tcp_close = [i \in SockIds |-> "none"]
    /\ lock = Free
    /\ closed = [k \in Loops |-> FALSE]
    /\ nops = 0
    /\ ev = Event("init", 0, NoMsg, NoSock)

----------------------------------------------------------------------------
\* SubWsSocketDescriptor

\* AtomicU64::fetch_add(1): the counter afterwards, and the value returned
fetch_add(c) == [new |-> c + 1, id |-> c]

\* the fields of a descriptor that make it up in the model; a WsTcpSocketDescriptor
\* has no pubkey
SubDesc(id, peer) == [kind |-> "Sub", id |-> id, peer_pubkey_bytes |-> peer]
TcpDesc(id) == [kind |-> "Tcp", id |-> id, peer_pubkey_bytes |-> <<>>]

\* an equality that compares the pubkeys
eq_by_peer(a, b) == a.peer_pubkey_bytes = b.peer_pubkey_bytes

\* PartialEq::eq of both descriptors: the ids are compared, and nothing else
eq(a, b) == a.id = b.id

\* Clone::clone of both descriptors: every field is copied or shared
Clone(a) == [kind |-> a.kind, id |-> a.id, peer_pubkey_bytes |-> a.peer_pubkey_bytes]

\* SubWsSocketDescriptor::new: takes the next id, the socket starts not stopped
NewSub(id, peer) ==
    /\ id = fetch_add(ID_COUNTER).id
    /\ ID_COUNTER' = fetch_add(ID_COUNTER).new
    /\ peer_pubkey_bytes' = [peer_pubkey_bytes EXCEPT ![id] = peer]
    /\ created' = Append(created, SubDesc(id, peer))

\* a stop flag that is never seen set
StopLoad_never(id) == FALSE

\* self.stop.load(Ordering::Relaxed) of a subsocket
StopLoad(id) == sub_stop[id]

\* a send that leaves the pubkey out
Prefixed_none(id, data) == data

\* send_data, lines 513-515: the pubkey of the socket, then the data
Prefixed(id, data) == peer_pubkey_bytes[id] \o data

\* a read that looks at the channel first
ReadTurn_channel_first(id) ==
    IF read_channel[id] # <<>> THEN "Recv"
    ELSE IF StopLoad(id) THEN "ConnectionFailed" ELSE "Sleep"

\* read, lines 491-498: what one turn of the loop does
ReadTurn(id) ==
    IF StopLoad(id) THEN "ConnectionFailed"
    ELSE IF read_channel[id] # <<>> THEN "Recv" ELSE "Sleep"

\* a receive that takes the newest message
try_recv_newest(q) == [msg |-> q[Len(q)], rest |-> SubSeq(q, 1, Len(q) - 1)]

\* crossbeam Receiver::try_recv on a channel that is not empty
try_recv(q) == [msg |-> Head(q), rest |-> Tail(q)]

\* a keep alive that pings twice
KeepAliveMsgs_twice(c) == IF c # 0 THEN <<Text(PingJson), Text(PingJson)>> ELSE <<>>

\* attempt_keep_alive, lines 141-145: what is handed to conn.send
KeepAliveMsgs(c) == IF c # 0 THEN <<Text(PingJson)>> ELSE <<>>

\* a command with the two pubkeys in each other's place
DisconnectCommand_swap(id) == Text(DisconnectJson(our_peer_pubkey, peer_pubkey_bytes[id]))

\* the command disconnect_socket sends down send_channel
DisconnectCommand(id) == Text(DisconnectJson(peer_pubkey_bytes[id], our_peer_pubkey))

\* the subsockets of the entries of a map, and how many entries hold socket i
SubsOf(m) == {m[key].sub : key \in DOMAIN m}
EntriesOf(m, i) == Cardinality({key \in DOMAIN m : m[key].sub = i})

\* the orders a HashMap iteration can visit the keys in
IterOrders(m) ==
    {o \in [1..Cardinality(DOMAIN m) -> DOMAIN m] :
        \A i, j \in DOMAIN o : i # j => o[i] # o[j]}

\* a sweep that skips the subsockets already stopped
StaleNotified_skip(m, d) ==
    [i \in SockIds |-> d[i] + IF sub_stop[i] THEN 0 ELSE EntriesOf(m, i)]

\* connect, lines 152-158: socket_disconnected is called for the subsocket of
\* every entry; d counts the calls so far
StaleNotified(m, d) == [i \in SockIds |-> d[i] + EntriesOf(m, i)]

\* a reader that keeps its guard over the miss of the lookup
DropLock_kept(k) == k

\* drop(socket_lock), line 357: the reader of transport k gives the guard up
\* before it builds the new subsocket
DropLock(k) == Free

\* socket_map.lock().await returns a guard, and the guard has gone out of
\* scope before the task awaits again or returns
Locked == lock = Free /\ lock' = Free

\* one more external event
Op == nops < MaxOps /\ nops' = nops + 1

----------------------------------------------------------------------------
\* The caller of the multiplexer: connect and create_new_subsocket

\* connect, lines 148-168, with listen: under the lock every subsocket of the
\* map is told to disconnect and reported to the peer manager, the map is
\* cleared, the transport installed and the two tasks of listen spawned
Connect ==
    /\ caller.pc = "idle"
    /\ Op
    /\ Locked
    /\ \E order \in IterOrders(socket_map) :
          /\ read_from_sub_socket' = read_from_sub_socket \o
                [j \in 1..Len(order) |-> DisconnectCommand(socket_map[order[j]].sub)]
          /\ ev' = Event("connect", conn + 1, NoMsg,
                         IF order = <<>> THEN NoSock ELSE socket_map[order[1]].sub)
    /\ sub_stop' = [i \in SockIds |-> sub_stop[i] \/ i \in SubsOf(socket_map)]
    /\ disconnected' = StaleNotified(socket_map, disconnected)
    /\ socket_map' = EmptyMap
    /\ conn' = conn + 1
    /\ connected' = TRUE
    /\ reader' = [reader EXCEPT ![conn'] = [pc |-> "read", msg |-> NoMsg, sub |-> NoSock]]
    /\ pump' = [pump EXCEPT ![conn'] = "run"]
    /\ UNCHANGED <<ID_COUNTER, peer_pubkey_bytes, created, read_channel, sent, stop, caller,
                   registered, new_inbound, delivered, sent_data>>
    /\ UNCHANGED <<delay, tcpVars>>
    /\ UNCHANGED closed

\* MultiWsSocketDescriptor::create_new_subsocket up to the lock of line 447:
\* the socket is built (SubWsSocketDescriptor::new) before the lock is awaited
CreateCall(p) ==
    /\ caller.pc = "idle"
    /\ Op
    /\ NewSub(ID_COUNTER, p)
    /\ caller' = [pc |-> "create", peer |-> p, sub |-> ID_COUNTER]
    /\ ev' = Event("create_call", 0, NoMsg, ID_COUNTER)
    /\ UNCHANGED <<sub_stop, read_channel, socket_map, multiVars, stop,
                   reader, pump, pmVars>>
    /\ UNCHANGED <<delay, tcpVars>>
    /\ UNCHANGED lock
    /\ UNCHANGED closed

\* create_new_subsocket, lines 446-451: insert and hand the socket to the caller
CreateInsert ==
    /\ caller.pc = "create"
    /\ Locked
    /\ socket_map' = Insert(socket_map, caller.peer, Entry(caller.sub))
    /\ registered' = [registered EXCEPT ![caller.sub] = TRUE]
    /\ caller' = CallerIdle
    /\ ev' = Event("create", 0, NoMsg, caller.sub)
    /\ UNCHANGED <<sockVars, multiVars, stop, reader, pump, new_inbound,
                   disconnected, delivered, sent_data, nops>>
    /\ UNCHANGED <<delay, tcpVars>>
    /\ UNCHANGED closed

----------------------------------------------------------------------------
\* The reader task of listen (lines 213-251) and handle_incoming_msg

ReaderAt(k, pc) == reader[k].pc = pc
ReaderTo(k, pc, msg, sub) == reader' = [reader EXCEPT ![k] = [pc |-> pc, msg |-> msg, sub |-> sub]]

\* Message::Text, lines 287-335
HandleText(k, f) ==
    /\ LET command == ParseCommand(f.text) IN
          IF command.ok /\ command.cmd = "Disconnect"
                /\ get_mut(socket_map, command.from) # {}
          THEN LET sub == socket_map[CHOOSE x \in get_mut(socket_map, command.from) : TRUE].sub IN
               /\ sub_stop' = [sub_stop EXCEPT ![sub] = TRUE]
               /\ disconnected' = [disconnected EXCEPT ![sub] = @ + 1]
               /\ socket_map' = Remove(socket_map, command.from)
          ELSE UNCHANGED <<sub_stop, disconnected, socket_map>>
    /\ LET command == ParseCommand(f.text) IN
          IF command.ok /\ command.cmd = "Disconnect" THEN Locked ELSE UNCHANGED lock
    /\ UNCHANGED <<ID_COUNTER, peer_pubkey_bytes, created, read_channel, reader>>

\* Message::Bytes, lines 336-380: a short frame is dropped; a hit of the lookup
\* forwards the payload; a miss drops the lock and builds the new subsocket up
\* to the lock of line 447
HandleBytes(k, f) ==
    /\ IF TooShort(f.data)
       THEN UNCHANGED <<ID_COUNTER, peer_pubkey_bytes, created, read_channel, reader, lock>>
       ELSE IF SplitPanics(f.data, PUBKEY_BYTES_LEN)
       THEN /\ ReaderTo(k, "panicked", NoMsg, NoSock)
            /\ UNCHANGED <<ID_COUNTER, peer_pubkey_bytes, created, read_channel, lock>>
       ELSE IF Has(socket_map, id_bytes(f.data))
       THEN /\ Locked
            /\ read_channel' = [read_channel EXCEPT
                    ![socket_map[id_bytes(f.data)].sender] =
                        Append(@, Bytes(message_bytes(f.data)))]
            /\ UNCHANGED <<ID_COUNTER, peer_pubkey_bytes, created, reader>>
       ELSE /\ lock = Free
            /\ lock' = DropLock(k)
            /\ NewSub(ID_COUNTER, id_bytes(f.data))
            /\ ReaderTo(k, "create", f, ID_COUNTER)
            /\ UNCHANGED read_channel
    /\ UNCHANGED <<sub_stop, disconnected, socket_map>>

\* conn.read() yields Some(Ok(msg)), lines 219-231: handle_incoming_msg runs up
\* to its return or to the second time it awaits the lock
Dispatch(k, f) ==
    /\ ReaderAt(k, "read")
    /\ ~closed[k]
    /\ Op
    /\ IF f.kind = "Text" THEN HandleText(k, f) ELSE HandleBytes(k, f)
    /\ ev' = Event("frame", k, f, NoSock)
    /\ UNCHANGED <<multiVars, stop, pump, caller, registered, new_inbound, delivered, sent_data>>
    /\ delay' = [delay EXCEPT ![k] = FALSE]
    /\ UNCHANGED tcpVars
    /\ UNCHANGED closed

\* lines 446-449 and 381-410: the new subsocket is inserted and offered to the
\* peer manager, which accepts it (ok) or not; accepted, it gets the payload
Offer(k, ok) ==
    /\ ReaderAt(k, "create")
    /\ Locked
    /\ LET msg == reader[k].msg.data
           sub == reader[k].sub
       IN  /\ socket_map' = Insert(socket_map, id_bytes(msg), Entry(sub))
           /\ new_inbound' = [new_inbound EXCEPT ![sub] = @ + 1]
           /\ IF ok
              THEN /\ registered' = [registered EXCEPT ![sub] = TRUE]
                   /\ read_channel' = [read_channel EXCEPT ![sub] = Append(@, Bytes(message_bytes(msg)))]
                   /\ ReaderTo(k, "read", NoMsg, NoSock)
                   /\ ev' = Event("accepted", k, reader[k].msg, sub)
              ELSE /\ ReaderTo(k, "reject", reader[k].msg, sub)
                   /\ ev' = Event("rejected", k, reader[k].msg, sub)
                   /\ UNCHANGED <<registered, read_channel>>
    /\ UNCHANGED <<ID_COUNTER, peer_pubkey_bytes, created, sub_stop, multiVars, stop, pump,
                   caller, disconnected, delivered, sent_data, nops>>
    /\ UNCHANGED <<delay, tcpVars>>
    /\ UNCHANGED closed

\* new_inbound_connection failed, lines 411-421
Unwind(k) ==
    /\ ReaderAt(k, "reject")
    /\ Locked
    /\ LET sub == reader[k].sub
       IN  /\ read_from_sub_socket' = Append(read_from_sub_socket, DisconnectCommand(sub))
           /\ sub_stop' = [sub_stop EXCEPT ![sub] = TRUE]
           /\ disconnected' = [disconnected EXCEPT ![sub] = @ + 1]
           /\ socket_map' = Unwound(socket_map, reader[k].msg.data)
           /\ ev' = Event("unwound", k, reader[k].msg, sub)
    /\ ReaderTo(k, "read", NoMsg, NoSock)
    /\ UNCHANGED <<ID_COUNTER, peer_pubkey_bytes, created, read_channel, conn, connected,
                   sent, stop, pump, caller, registered, new_inbound, delivered, sent_data, nops>>
    /\ UNCHANGED <<delay, tcpVars>>
    /\ UNCHANGED closed

\* a reader that leaves no loop
ReaderExit_stay(k) ==
    /\ ReaderTo(k, "read", NoMsg, NoSock)
    /\ connected' = FALSE
    /\ conn' = conn
    /\ delay' = [delay EXCEPT ![k] = FALSE]

\* a reader that takes the transport with it
ReaderExit_unset(k) ==
    /\ ReaderTo(k, "done", NoMsg, NoSock)
    /\ connected' = FALSE
    /\ conn' = 0
    /\ delay' = [delay EXCEPT ![k] = FALSE]

\* lines 249-250: the reader has left its loop; connected is cleared, and the
\* task has no access to the conn field
ReaderExit(k) ==
    /\ ReaderTo(k, "done", NoMsg, NoSock)
    /\ connected' = FALSE
    /\ conn' = conn
    /\ delay' = [delay EXCEPT ![k] = FALSE]

\* conn.read() yields Some(Err(e)), lines 232-235 and 249-250
ReadErr(k) ==
    /\ ReaderAt(k, "read")
    /\ ~closed[k]
    /\ Op
    /\ ReaderExit(k)
    /\ ev' = Event("read_err", k, NoMsg, NoSock)
    /\ UNCHANGED <<sockVars, socket_map, read_from_sub_socket, sent,
                   stop, pump, caller, pmVars>>
    /\ UNCHANGED tcpVars
    /\ UNCHANGED lock
    /\ UNCHANGED closed

\* conn.read() yields None, lines 236-239: the loop goes on, with a new delay.
\* The transport yields None when it has closed, and yields nothing else
\* afterwards; the first None is one of the run's external events
ReadNone(k) ==
    /\ ReaderAt(k, "read")
    /\ delay' = [delay EXCEPT ![k] = FALSE]
    /\ closed' = [closed EXCEPT ![k] = TRUE]
    /\ IF closed[k]
       THEN /\ ev' = IF delay[k] THEN Event("read_none", k, NoMsg, NoSock) ELSE ev
            /\ UNCHANGED nops
       ELSE /\ Op
            /\ ev' = Event("read_none", k, NoMsg, NoSock)
    /\ UNCHANGED <<sockVars, socket_map, multiVars, stop, taskVars, pmVars,
                   tcpVars, lock>>

\* utils::sleep(1_000) of the reader's turn runs out, line 216: every turn of
\* the loop starts a new delay.  With the stop flag clear the branch of the
\* delay does nothing (line 243), so that the time is followed only once the
\* flag is set
Elapse(k) ==
    /\ ReaderAt(k, "read")
    /\ stop
    /\ ~delay[k]
    /\ delay' = [delay EXCEPT ![k] = TRUE]
    /\ ev' = Event("elapse", k, NoMsg, NoSock)
    /\ UNCHANGED <<sockVars, socket_map, multiVars, stop, taskVars, pmVars,
                   tcpVars, nops>>
    /\ UNCHANGED lock
    /\ UNCHANGED closed

\* the delay future wins the select, lines 242-250
Tick(k) ==
    /\ ReaderAt(k, "read")
    /\ stop => delay[k]
    /\ IF stop
       THEN /\ ReaderExit(k)
            /\ ev' = Event("tick_stop", k, NoMsg, NoSock)
       ELSE UNCHANGED <<reader, connected, conn, ev, delay>>
    /\ UNCHANGED <<sockVars, socket_map, read_from_sub_socket, sent,
                   stop, pump, caller, pmVars, tcpVars, nops>>
    /\ UNCHANGED lock
    /\ UNCHANGED closed

----------------------------------------------------------------------------
\* The channel pump task of listen, lines 258-273: one turn of its loop

Pump(k) ==
    /\ pump[k] = "run"
    /\ IF read_from_sub_socket # <<>>
       THEN /\ sent' = [sent EXCEPT ![k] = Append(@, try_recv(read_from_sub_socket).msg)]
            /\ read_from_sub_socket' = try_recv(read_from_sub_socket).rest
            /\ ev' = Event("pump", k, try_recv(read_from_sub_socket).msg, NoSock)
       ELSE /\ UNCHANGED <<sent, read_from_sub_socket>>
            /\ ev' = IF connected THEN ev ELSE Event("pump_exit", k, NoMsg, NoSock)
    /\ pump' = [pump EXCEPT ![k] = IF connected THEN "run" ELSE "done"]
    /\ UNCHANGED <<sockVars, socket_map, conn, connected, stop, reader,
                   caller, pmVars, nops>>
    /\ UNCHANGED <<delay, tcpVars>>
    /\ UNCHANGED lock
    /\ UNCHANGED closed

----------------------------------------------------------------------------
\* The peer manager's calls on a subsocket it holds, and the session's stop flag

\* a peer manager that calls while no task is between two awaits of the lock
PeerHolds_unlocked(id) ==
    /\ registered[id]
    /\ caller.pc = "idle"
    /\ \A k \in Loops : reader[k].pc \notin {"create", "reject"}

\* the peer manager can call a subsocket it was handed (lines 382, 451); the
\* synchronous methods of the subsocket take no lock
PeerHolds(id) == registered[id]

\* SubWsSocketDescriptor::disconnect_socket, lines 524-540
DisconnectSocket(id) ==
    /\ PeerHolds(id)
    /\ Op
    /\ read_from_sub_socket' = Append(read_from_sub_socket, DisconnectCommand(id))
    /\ sub_stop' = [sub_stop EXCEPT ![id] = TRUE]
    /\ ev' = Event("disconnect_socket", 0, NoMsg, id)
    /\ UNCHANGED <<ID_COUNTER, peer_pubkey_bytes, created, read_channel, socket_map,
                   conn, connected, sent, stop, taskVars, pmVars>>
    /\ UNCHANGED <<delay, tcpVars>>
    /\ UNCHANGED lock
    /\ UNCHANGED closed

\* SubWsSocketDescriptor::read, lines 489-499: one turn of its loop; the call
\* returns an error, returns the oldest payload of the channel, or sleeps.
\* A call that returns the error is one of the run's external events
Read(id) ==
    /\ registered[id]
    /\ IF ReadTurn(id) = "ConnectionFailed"
       THEN /\ Op
            /\ ev' = Event("read_failed", 0, NoMsg, id)
            /\ UNCHANGED <<read_channel, delivered>>
       ELSE IF ReadTurn(id) = "Sleep"
       THEN UNCHANGED <<read_channel, delivered, ev, nops>>
       ELSE /\ read_channel' = [read_channel EXCEPT ![id] = Tail(@)]
            /\ delivered' = [delivered EXCEPT ![id] =
                    IF Head(read_channel[id]).kind = "Bytes"
                    THEN Append(@, Head(read_channel[id]).data) ELSE @]
            /\ ev' = Event("read", 0, Head(read_channel[id]), id)
            /\ UNCHANGED nops
    /\ UNCHANGED <<ID_COUNTER, peer_pubkey_bytes, created, sub_stop, socket_map,
                   multiVars, stop, taskVars, registered, new_inbound,
                   disconnected, sent_data>>
    /\ UNCHANGED <<delay, tcpVars>>
    /\ UNCHANGED lock
    /\ UNCHANGED closed

\* what a call of send_data leaves in ev: the socket, the data, the value returned
SendEvent(id, data, n) ==
    [op |-> "send_data", k |-> 0, msg |-> Bytes(data), id |-> id, ret |-> n]

\* SubWsSocketDescriptor::send_data, lines 504-522.  The receiver of the shared
\* channel is a field of the multiplexer, so the send on it does not fail
SendData(id, data) ==
    /\ PeerHolds(id)
    /\ Op
    /\ IF StopLoad(id)
       THEN /\ ev' = SendEvent(id, data, 0)
            /\ UNCHANGED <<read_from_sub_socket, sent_data>>
       ELSE /\ read_from_sub_socket' =
                    Append(read_from_sub_socket, Bytes(Prefixed(id, data)))
            /\ sent_data' = [sent_data EXCEPT ![id] = Append(@, data)]
            /\ ev' = SendEvent(id, data, Len(data))
    /\ UNCHANGED <<sockVars, socket_map, conn, connected, sent, stop, taskVars,
                   registered, new_inbound, disconnected, delivered>>
    /\ UNCHANGED <<delay, tcpVars>>
    /\ UNCHANGED lock
    /\ UNCHANGED closed

\* WsTcpSocketDescriptor::new, lines 29-32: a direct socket takes the next id
NewTcp ==
    /\ Op
    /\ ID_COUNTER' = fetch_add(ID_COUNTER).new
    /\ created' = Append(created, TcpDesc(fetch_add(ID_COUNTER).id))
    /\ tcp_close' = [tcp_close EXCEPT ![fetch_add(ID_COUNTER).id] = "open"]
    /\ ev' = Event("new_tcp", 0, NoMsg, fetch_add(ID_COUNTER).id)
    /\ UNCHANGED <<peer_pubkey_bytes, sub_stop, read_channel, socket_map,
                   multiVars, stop, taskVars, pmVars, delay, tcp_sent>>
    /\ UNCHANGED lock
    /\ UNCHANGED closed

\* data written to a direct socket
DirectData == {<<7>>}

\* WsTcpSocketDescriptor::send_data, lines 53-57: the data goes to conn.send as
\* it is, and data.len() is returned
TcpSendData(id, data) ==
    /\ tcp_close[id] # "none"
    /\ Op
    /\ tcp_sent' = [tcp_sent EXCEPT ![id] = Append(@, Bytes(data))]
    /\ ev' = [op |-> "tcp_send_data", k |-> 0, msg |-> Bytes(data), id |-> id,
              ret |-> Len(data)]
    /\ UNCHANGED <<sockVars, socket_map, multiVars, stop, taskVars, pmVars,
                   delay, tcp_close>>
    /\ UNCHANGED lock
    /\ UNCHANGED closed

\* WsTcpSocketDescriptor::disconnect_socket, lines 59-64: a task is spawned
\* that closes the transport
TcpDisconnectSocket(id) ==
    /\ tcp_close[id] # "none"
    /\ Op
    /\ tcp_close' = [tcp_close EXCEPT ![id] = IF @ = "closed" THEN @ ELSE "closing"]
    /\ ev' = Event("tcp_disconnect_socket", 0, NoMsg, id)
    /\ UNCHANGED <<sockVars, socket_map, multiVars, stop, taskVars, pmVars,
                   delay, tcp_sent>>
    /\ UNCHANGED lock
    /\ UNCHANGED closed

\* the spawned task, line 62: cloned.close().await
TcpClose(id) ==
    /\ tcp_close[id] = "closing"
    /\ tcp_close' = [tcp_close EXCEPT ![id] = "closed"]
    /\ ev' = Event("tcp_close", 0, NoMsg, id)
    /\ UNCHANGED <<sockVars, socket_map, multiVars, stop, taskVars, pmVars,
                   delay, tcp_sent, nops>>
    /\ UNCHANGED lock
    /\ UNCHANGED closed

\* MultiWsSocketDescriptor::attempt_keep_alive, lines 140-146
KeepAlive ==
    /\ Op
    /\ sent' = IF conn = 0 THEN sent
               ELSE [sent EXCEPT ![conn] = @ \o KeepAliveMsgs(conn)]
    /\ ev' = Event("keep_alive", conn, NoMsg, NoSock)
    /\ UNCHANGED <<sockVars, socket_map, conn, connected, read_from_sub_socket,
                   stop, taskVars, pmVars>>
    /\ UNCHANGED <<delay, tcpVars>>
    /\ UNCHANGED lock
    /\ UNCHANGED closed

\* the owner of the session sets the stop flag
SetStop ==
    /\ ~stop
    /\ Op
    /\ stop' = TRUE
    /\ ev' = Event("stop", 0, NoMsg, NoSock)
    /\ UNCHANGED <<sockVars, socket_map, multiVars, taskVars, pmVars>>
    /\ UNCHANGED <<delay, tcpVars>>
    /\ UNCHANGED lock
    /\ UNCHANGED closed

----------------------------------------------------------------------------
Next ==
    \/ Connect
    \/ \E p \in Peers : CreateCall(p)
    \/ CreateInsert
    \/ \E k \in Loops, f \in Frames : Dispatch(k, f)
    \/ \E k \in Loops, ok \in BOOLEAN : Offer(k, ok)
    \/ \E k \in Loops : Unwind(k)
    \/ \E k \in Loops : ReadErr(k)
    \/ \E k \in Loops : ReadNone(k)
    \/ \E k \in Loops : Tick(k)
    \/ \E k \in Loops : Pump(k)
    \/ \E id \in SockIds : DisconnectSocket(id)
    \/ \E id \in SockIds : Read(id)
    \/ SetStop
    \/ \E id \in SockIds, data \in Payloads : SendData(id, data)
    \/ NewTcp
    \/ KeepAlive
    \/ \E k \in Loops : Elapse(k)
    \/ \E id \in SockIds, data \in DirectData : TcpSendData(id, data)
    \/ \E id \in SockIds : TcpDisconnectSocket(id)
    \/ \E id \in SockIds : TcpClose(id)

Spec == Init /\ [][Next]_vars

\* the steps the reader task of transport k takes by itself: it gets the lock
\* it awaits, and its delay runs out and is seen
ReaderStep(k) ==
    \/ \E ok \in BOOLEAN : Offer(k, ok)
    \/ Unwind(k)
    \/ Elapse(k)
    \/ Tick(k)

\* the executor runs every task that can take a step: the caller awaiting the
\* lock, each reader, each pump, each spawned close; nothing makes the
\* callers, the transports or the peer manager act
FairSpec ==
    /\ Spec
    /\ WF_vars(CreateInsert)
    /\ \A k \in Loops : WF_vars(ReaderStep(k)) /\ WF_vars(Pump(k))
    /\ \A id \in SockIds : WF_vars(TcpClose(id))

----------------------------------------------------------------------------
\* What the properties say of a frame and of a step.  The step taken last is
\* ev; in a step that changes the state, ev' names that step.

IsPeerFrame(m) == m.kind = "Bytes" /\ Len(m.data) >= PUBKEY_BYTES_LEN
PeerOf(m) == SubSeq(m.data, 1, PUBKEY_BYTES_LEN)
PayloadOf(m) == SubSeq(m.data, PUBKEY_BYTES_LEN + 1, Len(m.data))
IsDisconnect(m) ==
    /\ m.kind = "Text"
    /\ DOMAIN m.text = {"tag", "to", "from"}
    /\ m.text.tag = "Disconnect"
AllButCounters ==
    <<sockVars, socket_map, multiVars, stop, taskVars, pmVars, tcpVars, lock, closed>>

\* the payloads the coming calls of read() on socket i return
Readable(i) ==
    IF sub_stop[i] THEN <<>>
    ELSE [j \in 1..Len(read_channel[i]) |-> read_channel[i][j].data]

----------------------------------------------------------------------------
\* C1: socket_disconnected is called at most once for any one socket identity.
C1_AtMostOnce == \A i \in SockIds : disconnected[i] <= 1

\* C2: every socket registered with the peer manager (accepted by
\* new_inbound_connection or returned by create_new_subsocket) is eventually
\* reported by socket_disconnected.
C2_EventuallyDisconnected ==
    \A i \in SockIds : registered[i] ~> (disconnected[i] >= 1)

\* C3: connect calls socket_disconnected exactly once for the socket of every
\* entry the table held and leaves the table empty, and the reader of the new
\* transport starts only then, so before it dispatches any frame.
C3_ConnectSweep ==
    [][ev'.op = "connect" =>
        /\ \A i \in SockIds :
              disconnected'[i] = disconnected[i] +
                  (IF \E p \in DOMAIN socket_map : socket_map[p].sub = i THEN 1 ELSE 0)
        /\ socket_map' = EmptyMap
        /\ conn' = conn + 1
        /\ reader[conn'].pc = "off"
        /\ reader'[conn'].pc = "read"]_vars

C3_Witness ==
    /\ ev.op = "connect"
    /\ ev.id # NoSock
    /\ disconnected[ev.id] = 1
    /\ socket_map = EmptyMap

\* C4: dispatching the frame P || payload, to a socket the table already held
\* for P or to one this frame created and the peer manager accepted, makes the
\* coming calls of read() on P's socket return payload, once, after what they
\* returned before.
C4_RoundTrip ==
    [][(\/ ev'.op = "frame" /\ IsPeerFrame(ev'.msg) /\ Has(socket_map, PeerOf(ev'.msg))
        \/ ev'.op = "accepted")
       => /\ Has(socket_map', PeerOf(ev'.msg))
          /\ \A i \in SockIds :
                socket_map'[PeerOf(ev'.msg)].sub = i
                    => Readable(i)' = Append(Readable(i), PayloadOf(ev'.msg))]_vars

\* C5: when the frame a reader dispatches right after one that created a
\* socket for B, accepted by the peer manager, is for B too, no socket is
\* built and new_inbound_connection is not called: the table still maps B to
\* the first socket and the payload goes to that socket's queue.
C5_SecondFrameRouted ==
    [][(/\ ev.op = "accepted"
        /\ ev'.op = "frame"
        /\ ev'.k = ev.k
        /\ IsPeerFrame(ev'.msg)
        /\ PeerOf(ev'.msg) = PeerOf(ev.msg))
       => /\ ID_COUNTER' = ID_COUNTER
          /\ new_inbound' = new_inbound
          /\ socket_map' = socket_map
          /\ socket_map[PeerOf(ev.msg)].sub = ev.id
          /\ read_channel' = [read_channel EXCEPT
                 ![ev.id] = Append(@, Bytes(PayloadOf(ev'.msg)))]]_vars

C5_Witness ==
    /\ ev.op = "frame"
    /\ IsPeerFrame(ev.msg)
    /\ nops = 3
    /\ ID_COUNTER = 1
    /\ new_inbound[0] = 1
    /\ registered[0]
    /\ peer_pubkey_bytes[0] = PeerOf(ev.msg)
    /\ Len(read_channel[0]) = 2

\* C6: a binary frame shorter than 33 bytes changes nothing: no socket, no
\* table or queue change, no call of the peer manager.
C6_ShortFrameDropped ==
    [][(/\ ev'.op = "frame"
        /\ ev'.msg.kind = "Bytes"
        /\ Len(ev'.msg.data) < PUBKEY_BYTES_LEN)
       => UNCHANGED AllButCounters]_vars

C6_Witness ==
    /\ ev.op = "frame"
    /\ ev.msg \in ShortFrames
    /\ socket_map # EmptyMap

\* C7: a Disconnect command whose from has no entry in the table changes
\* nothing: the table, the stop flags and the peer manager's calls stay.
C7_UnknownDisconnect ==
    [][(/\ ev'.op = "frame"
        /\ IsDisconnect(ev'.msg)
        /\ ~Has(socket_map, ev'.msg.text.from))
       => UNCHANGED AllButCounters]_vars

C7_Witness ==
    /\ ev.op = "frame"
    /\ IsDisconnect(ev.msg)
    /\ socket_map # EmptyMap
    /\ \A i \in SockIds : disconnected[i] = 0 /\ ~sub_stop[i]

\* C8: a Disconnect command whose from has an entry stops that entry's
\* socket, calls socket_disconnected once for it and removes the entry, in the
\* one critical section, and touches no other socket or entry.
C8_KnownDisconnect ==
    [][(/\ ev'.op = "frame"
        /\ IsDisconnect(ev'.msg)
        /\ Has(socket_map, ev'.msg.text.from))
       => LET from == ev'.msg.text.from
              sub == socket_map[from].sub
          IN  /\ sub_stop' = [sub_stop EXCEPT ![sub] = TRUE]
              /\ disconnected' = [disconnected EXCEPT ![sub] = @ + 1]
              /\ ~Has(socket_map', from)
              /\ DOMAIN socket_map' = DOMAIN socket_map \ {from}
              /\ \A p \in DOMAIN socket_map' : socket_map'[p] = socket_map[p]]_vars

C8_Witness ==
    /\ ev.op = "frame"
    /\ IsDisconnect(ev.msg)
    /\ ~Has(socket_map, ev.msg.text.from)
    /\ read_from_sub_socket = <<>>
    /\ \A k \in Loops : sent[k] = <<>>
    /\ \E i \in SockIds :
          /\ peer_pubkey_bytes[i] = ev.msg.text.from
          /\ sub_stop[i]
          /\ disconnected[i] = 1

\* C9: when the peer manager rejects the new socket for P, the payload is not
\* put on the socket's queue, and the unwinding stops the socket, calls
\* socket_disconnected for it and leaves the table without an entry for P.
C9_RejectedUnwound ==
    [][/\ ev'.op = "rejected" =>
            /\ read_channel' = read_channel
            /\ ~registered'[ev'.id]
            /\ reader'[ev'.k].pc = "reject"
       /\ ev'.op = "unwound" =>
            /\ reader[ev'.k].pc = "reject"
            /\ read_channel' = read_channel
            /\ sub_stop'[ev'.id]
            /\ disconnected'[ev'.id] = disconnected[ev'.id] + 1
            /\ ~Has(socket_map', PeerOf(ev'.msg))]_vars

C9_Witness ==
    /\ ev.op = "unwound"
    /\ sub_stop[ev.id]
    /\ disconnected[ev.id] = 1
    /\ read_channel[ev.id] = <<>>

\* C10: when the peer manager accepts the socket built for a frame of P, the
\* table maps P to that socket, new_inbound_connection has been called once
\* for it, and its queue, empty until the acceptance, holds the payload.
C10_AcceptedInbound ==
    [][ev'.op = "accepted" =>
        LET P == PeerOf(ev'.msg)
            id == ev'.id
        IN  /\ Has(socket_map', P)
            /\ socket_map'[P].sub = id
            /\ new_inbound'[id] = 1
            /\ ~registered[id]
            /\ registered'[id]
            /\ read_channel[id] = <<>>
            /\ read_channel'[id] = <<Bytes(PayloadOf(ev'.msg))>>]_vars

C10_Witness ==
    /\ ev.op = "accepted"
    /\ registered[ev.id]
    /\ Has(socket_map, PeerOf(ev.msg))
    /\ socket_map[PeerOf(ev.msg)].sub = ev.id

----------------------------------------------------------------------------
C12_SendStopped ==
    [][ev'.op = "send_data"
       => /\ ev'.ret \in {0, Len(ev'.msg.data)}
          /\ sub_stop[ev'.id]
                => /\ ev'.ret = 0
                   /\ read_from_sub_socket' = read_from_sub_socket]_vars

C12_Witness ==
    /\ ev.op = "send_data"
    /\ sub_stop[ev.id]
    /\ disconnected[ev.id] = 1
    /\ ev.msg.data # <<>>
    /\ ev.ret = 0

\* C13: a second disconnect_socket on a socket, right after the first, changes
\* nothing that can be observed: the stop flag, the peer manager's
\* notifications and the commands on their way to the relay stay as they were.
C13_DisconnectIdempotent ==
    [][(/\ ev.op = "disconnect_socket"
        /\ ev'.op = "disconnect_socket"
        /\ ev'.id = ev.id)
       => UNCHANGED <<sub_stop, disconnected, read_from_sub_socket, sent>>]_vars

\* C14: read looks at the stop flag before the channel: a stopped socket's
\* read fails and returns no payload, whatever its channel holds; a read that
\* returns a payload is on a socket not stopped and returns the oldest payload
\* of its channel.
C14_ReadStoppedFirst ==
    [][/\ \A i \in SockIds :
             sub_stop[i] =>
                /\ ReadTurn(i) = "ConnectionFailed"
                /\ delivered'[i] = delivered[i]
                /\ Len(read_channel'[i]) >= Len(read_channel[i])
       /\ ev'.op = "read_failed" =>
             /\ sub_stop[ev'.id]
             /\ UNCHANGED <<read_channel, delivered>>
       /\ ev'.op = "read" =>
             /\ ~sub_stop[ev'.id]
             /\ read_channel[ev'.id] # <<>>
             /\ delivered'[ev'.id] =
                   Append(delivered[ev'.id], Head(read_channel[ev'.id]).data)
             /\ read_channel'[ev'.id] = Tail(read_channel[ev'.id])]_vars

C14_Witness ==
    /\ ev.op = "read_failed"
    /\ sub_stop[ev.id]
    /\ read_channel[ev.id] # <<>>
    /\ delivered[ev.id] = <<>>

\* C15: the descriptors built so far, direct or sub, have the ids 0, 1, 2, ...
\* in the order of their creation, taken from the one counter; no step changes
\* a descriptor; two of them are never equal, even when built for the same
\* pubkey, and each is equal to its clone.
C15_IdentityUnique ==
    [][/\ Len(created') = ID_COUNTER'
       /\ \A i \in 1..Len(created) : created'[i] = created[i]
       /\ \A i \in 1..Len(created') :
             /\ created'[i].id = i - 1
             /\ eq(Clone(created'[i]), created'[i])
             /\ \A j \in 1..Len(created') :
                   i # j => ~eq(created'[i], created'[j])]_vars

C15_Witness ==
    /\ \E i, j \in 1..Len(created) :
          /\ i # j
          /\ created[i].kind = "Sub"
          /\ created[j].kind = "Sub"
          /\ created[i].peer_pubkey_bytes = created[j].peer_pubkey_bytes
    /\ \E i \in 1..Len(created) : created[i].kind = "Tcp"

\* C16: attempt_keep_alive hands exactly one Ping command, as a text frame, to
\* the transport installed last and changes nothing else; with no transport
\* installed it changes nothing.
C16_KeepAlive ==
    [][ev'.op = "keep_alive" =>
        /\ conn = 0 => UNCHANGED AllButCounters
        /\ conn # 0 =>
              /\ sent' = [sent EXCEPT ![conn] = Append(@, Text(PingJson))]
              /\ UNCHANGED <<sockVars, socket_map, conn, connected,
                             read_from_sub_socket, stop, taskVars, pmVars>>]_vars

C16_Witness ==
    /\ ev.op = "keep_alive"
    /\ conn # 0
    /\ sent[conn] = <<Text(PingJson)>>

\* C17: once connect has installed a transport, no step leaves the
\* multiplexer without one, a transport error and the stop flag included.
C17_ConnNeverUnset == [][conn # 0 => conn' # 0]_vars

C17_Witness ==
    /\ conn # 0
    /\ ~connected
    /\ stop
    /\ \E k, l \in Loops :
          /\ reader[k].pc = "done"
          /\ reader[l].pc = "done"
          /\ k # l

\* the data of the frames transport k was handed with the pubkey p in front
ForwardedOf(k, p) ==
    LET mine == SelectSeq(sent[k], LAMBDA m : IsPeerFrame(m) /\ PeerOf(m) = p)
    IN  [j \in 1..Len(mine) |-> PayloadOf(mine[j])]

\* s can be had from t by leaving elements out
RECURSIVE IsSubSeq(_, _)
IsSubSeq(s, t) ==
    IF s = <<>> THEN TRUE
    ELSE IF t = <<>> THEN FALSE
    ELSE IF Head(s) = Head(t) THEN IsSubSeq(Tail(s), Tail(t))
    ELSE IsSubSeq(s, Tail(t))

\* no other socket of the same pubkey has sent: the frames with that pubkey
\* in front are this socket's
OnlySender(id) ==
    \A j \in SockIds \ {id} :
        peer_pubkey_bytes[j] = peer_pubkey_bytes[id] => sent_data[j] = <<>>

\* C18: what a transport was handed of the data sent on one socket, it was
\* handed in the order of the send_data calls.
C18_OutboundOrder ==
    \A k \in Loops, id \in SockIds :
        (sent_data[id] # <<>> /\ OnlySender(id))
            => IsSubSeq(ForwardedOf(k, peer_pubkey_bytes[id]), sent_data[id])

C18_Witness ==
    \E k \in Loops, id \in SockIds :
        /\ OnlySender(id)
        /\ Len(sent_data[id]) = 2
        /\ sent_data[id][1] # sent_data[id][2]
        /\ ForwardedOf(k, peer_pubkey_bytes[id]) = sent_data[id]

\* C19: after the peer manager's disconnect_socket on a socket, the table has
\* no entry that holds that socket.
C19_DisconnectRemoves ==
    [][ev'.op = "disconnect_socket"
       => \A p \in DOMAIN socket_map' : socket_map'[p].sub # ev'.id]_vars

\* C20: every entry of the table is kept under the pubkey of its socket, so
\* the table holds at most one socket per pubkey; and when create_new_subsocket
\* returns socket S for P, the table maps P to S and to the sender of the
\* channel S reads from.
C20_OneEntryPerPeer ==
    [][/\ \A p \in DOMAIN socket_map' :
             peer_pubkey_bytes'[socket_map'[p].sub] = p
       /\ \A p \in Peers :
             Cardinality({i \in SubsOf(socket_map') : peer_pubkey_bytes'[i] = p}) <= 1
       /\ ev'.op = "create" =>
             LET P == peer_pubkey_bytes[ev'.id] IN
             /\ Has(socket_map', P)
             /\ socket_map'[P].sub = ev'.id
             /\ socket_map'[P].sender = ev'.id]_vars

C20_Witness ==
    /\ ev.op = "create"
    /\ ev.id = 1
    /\ registered[0]
    /\ peer_pubkey_bytes[0] = peer_pubkey_bytes[1]
    /\ socket_map[peer_pubkey_bytes[1]] = [sub |-> 1, sender |-> 1]

----------------------------------------------------------------------------
\* C21: send_data of a direct socket hands its transport the data as it is,
\* as one Bytes message, and returns the length of the data while the socket
\* is live and 0 once disconnect_socket has been called on it.
C21_DirectSend ==
    [][ev'.op = "tcp_send_data" =>
        /\ tcp_sent'[ev'.id] = Append(tcp_sent[ev'.id], Bytes(ev'.msg.data))
        /\ ev'.ret = IF tcp_close[ev'.id] = "open" THEN Len(ev'.msg.data) ELSE 0]_vars

\* C22: on an error of the transport's read the reader leaves its loop and
\* connected becomes false; the table, the stop flags and the peer manager's
\* notifications stay as they are.
C22_TransportError ==
    [][ev'.op = "read_err" =>
        /\ reader[ev'.k].pc = "read"
        /\ reader'[ev'.k].pc = "done"
        /\ ~connected'
        /\ UNCHANGED <<socket_map, sub_stop, disconnected, registered>>]_vars

C22_Witness ==
    /\ ev.op = "read_err"
    /\ ~connected
    /\ socket_map # EmptyMap
    /\ \A p \in DOMAIN socket_map :
          /\ ~sub_stop[socket_map[p].sub]
          /\ disconnected[socket_map[p].sub] = 0

\* C23: once the stop flag is set, every reader in its loop leaves it,
\* whatever the transport delivers and however often.
C23_StopExits ==
    \A k \in Loops : (stop /\ reader[k].pc = "read") ~> (reader[k].pc = "done")

\* C24: once the reader a connect started has left its loop, the pump that
\* connect started leaves its loop too, whatever follows.
C24_PumpExits ==
    \A k \in Loops : (reader[k].pc = "done") ~> (pump[k] = "done")

\* C25: a reader leaves its loop, and connected is cleared, only by an error
\* of the transport's read or by a tick that sees the stop flag set; no frame,
\* whatever its handling comes to, ends the loop or clears connected.
C25_ExitOnlyErrorOrStop ==
    [][/\ \A k \in Loops :
             /\ reader'[k].pc # "panicked"
             /\ (reader[k].pc # "done" /\ reader'[k].pc = "done")
                   => (ev'.op \in {"read_err", "tick_stop"} /\ ev'.k = k)
       /\ (connected /\ ~connected') => ev'.op \in {"read_err", "tick_stop"}
       /\ ev'.op = "tick_stop" => stop
       /\ ev'.op \in {"frame", "accepted", "rejected", "unwound"} =>
             /\ connected' = connected
             /\ reader'[ev'.k].pc \in {"read", "create", "reject"}]_vars

C25_Witness ==
    /\ ev.op = "unwound"
    /\ reader[ev.k].pc = "read"
    /\ connected
    /\ nops = MaxOps

\* C26: a text frame that is no command, or is a Ping, changes nothing: the
\* table, the stop flags, the queues, connected and the peer manager's calls
\* stay as they are.
C26_TextNoEffect ==
    [][(/\ ev'.op = "frame"
        /\ ev'.msg.kind = "Text"
        /\ ~IsDisconnect(ev'.msg))
       => UNCHANGED AllButCounters]_vars

C26_Witness ==
    /\ ev.op = "frame"
    /\ ev.msg.kind = "Text"
    /\ ev.msg.text.tag = "Disconnect"
    /\ ~IsDisconnect(ev.msg)
    /\ socket_map # EmptyMap
    /\ connected

\* the pubkeys subsockets have been built with
SubPeers == {created[i].peer_pubkey_bytes : i \in {j \in 1..Len(created) : created[j].kind = "Sub"}}

\* a message on its way to the relay: a Ping or a Disconnect from us to the
\* pubkey of a subsocket, as text, or a subsocket's pubkey and a payload, as bytes
OutboundOk(m, peers) ==
    \/ /\ m.kind = "Text"
       /\ \/ m.text = PingJson
          \/ /\ IsDisconnect(m)
             /\ m.text.from = our_peer_pubkey
             /\ m.text.to \in peers
    \/ /\ IsPeerFrame(m)
       /\ PeerOf(m) \in peers

\* C27: every message handed to a transport of the multiplexer, or waiting on
\* the shared channel, is a command as text or a pubkey and payload as bytes;
\* the queues of the subsockets hold bytes only; a text frame puts nothing on
\* a subsocket's queue, and a binary frame stops no socket, reports none and
\* removes no entry.
C27_ChannelsApart ==
    [][/\ \A k \in Loops : \A j \in 1..Len(sent'[k]) : OutboundOk(sent'[k][j], SubPeers')
       /\ \A j \in 1..Len(read_from_sub_socket') : OutboundOk(read_from_sub_socket'[j], SubPeers')
       /\ \A i \in SockIds : \A j \in 1..Len(read_channel'[i]) :
             read_channel'[i][j].kind = "Bytes"
       /\ (ev'.op = "frame" /\ ev'.msg.kind = "Text") => UNCHANGED read_channel
       /\ (ev'.op = "frame" /\ ev'.msg.kind = "Bytes")
             => UNCHANGED <<sub_stop, disconnected, socket_map>>]_vars

C27_Witness ==
    \E k \in Loops :
        /\ \E j \in 1..Len(sent[k]) : IsDisconnect(sent[k][j])
        /\ \E j \in 1..Len(sent[k]) : IsPeerFrame(sent[k][j])

C29_ConnectStopsAll ==
    [][ev'.op = "connect" =>
        \A i \in SockIds :
            registered[i] => (sub_stop'[i] /\ ReadTurn(i)' = "ConnectionFailed")]_vars

\* C30: at most one reader and at most one pump are in their loops.
C30_OneLoop ==
    /\ Cardinality({k \in Loops : reader[k].pc \in {"read", "create", "reject"}}) <= 1
    /\ Cardinality({k \in Loops : pump[k] = "run"}) <= 1

\* C31: while the reader of the transport installed last is in its loop,
\* connected is true: the exit of an earlier reader does not clear it.
C31_ConnectedWhileRunning ==
    (conn # 0 /\ reader[conn].pc \in {"read", "create", "reject"}) => connected

\* C32: a pump hands a message to the transport installed last, and to no
\* transport of an earlier connect.
C32_PumpToLatest ==
    [][\A k \in Loops :
          (ev'.op = "pump" /\ sent'[k] # sent[k]) => k = conn]_vars

\* what the pumps have handed to transport k: the keep alive's pings are not
\* theirs
PumpedOf(k) == SelectSeq(sent[k], LAMBDA m : m # Text(PingJson))

RECURSIVE PumpedUpTo(_)
PumpedUpTo(k) == IF k = 0 THEN 0 ELSE Len(PumpedOf(k)) + PumpedUpTo(k - 1)

\* the messages taken off the shared channel so far, and those put on it
Forwarded == PumpedUpTo(MaxOps)
Enqueued == Forwarded + Len(read_from_sub_socket)

\* the step taken last has put a message on the shared channel
EnqueueStep ==
    \/ ev.op = "send_data" /\ ev.ret > 0
    \/ ev.op \in {"disconnect_socket", "unwound"}

\* C33: the j-th message put on the shared channel, put there while connected
\* is true, is taken off it and handed to a transport, whatever happens to
\* the connection or the stop flag afterwards.
C33_EventuallyForwarded ==
    \A j \in 1..(2 * MaxOps) :
        (connected /\ EnqueueStep /\ Enqueued = j) ~> (Forwarded >= j)

\* connect has just returned, its sweep has stopped a socket, and the one
\* message on the shared channel is the Disconnect command the sweep put there
SweepLeft ==
    /\ ev.op = "connect"
    /\ ev.id # NoSock
    /\ Len(read_from_sub_socket) = 1

\* C34: a message a socket put on the shared channel before the connect that
\* stopped the socket is not handed to the transport that connect installed;
\* here the Disconnect command of connect's own sweep.
C34_NoStaleForward ==
    [][SweepLeft => ~(ev'.op = "pump" /\ ev'.k = conn)]_vars

\* C35: no task holds the table's lock while it awaits or after it has
\* returned, so that no task awaits the lock it holds, and every task that
\* awaits the lock can take it: the caller of create_new_subsocket, a reader
\* on the path of the unknown peer and on the path of the rejection.
C35_NoDeadlock ==
    /\ lock = Free
    /\ caller.pc = "create" => ENABLED CreateInsert
    /\ \A k \in Loops :
          /\ reader[k].pc = "create" => \A ok \in BOOLEAN : ENABLED Offer(k, ok)
          /\ reader[k].pc = "reject" => ENABLED Unwind(k)

\* the caller has got the lock it awaited while a reader awaited it too, on
\* the path of the rejection
C35_Witness ==
    /\ ev.op = "create"
    /\ \E k \in Loops : reader[k].pc = "reject"

\* C36: once the read of transport k has yielded None, connected is cleared
\* and the reader of k leaves its loop.
C36_CloseExits ==
    \A k \in Loops : closed[k] ~> (~connected /\ reader[k].pc = "done")

\* the table holds, for pubkey p, a socket that create_new_subsocket's caller
\* has registered, and not the socket sub
CallerEntry(p, sub) ==
    /\ Has(socket_map, p)
    /\ socket_map[p].sub # sub
    /\ registered[socket_map[p].sub]
    /\ new_inbound[socket_map[p].sub] = 0

\* C37: when a reader that has missed pubkey P in the table comes to insert
\* its new socket, or to remove it after the rejection, an entry that the
\* caller of create_new_subsocket(P) has registered meanwhile is left as it is.
C37_LazyAtomic ==
    [][(ev'.op \in {"accepted", "rejected", "unwound"}
            /\ CallerEntry(id_bytes(ev'.msg.data), ev'.id))
        => /\ Has(socket_map', id_bytes(ev'.msg.data))
           /\ socket_map'[id_bytes(ev'.msg.data)] = socket_map[id_bytes(ev'.msg.data)]]_vars

====
